---- MODULE Spec2Model ----
(***************************************************************************)
(* Model of vec3d.math (src/vec3d/math/vector3d_math.py) and of draw3d of  *)
(* vec3d.graph (src/vec3d/graph/vector3d_graphics.py).  The library is     *)
(* a set of pure functions on tuples of numbers.  One call is modelled as  *)
(* a two-step machine: the initial state holds the arguments of the call,  *)
(* the call action evaluates the function body and records its outcome     *)
(* (the returned value, or the kind of the exception raised).              *)
(***************************************************************************)
EXTENDS Integers, Sequences, FiniteSets

VARIABLES op, scalars, vectors, objects, origin, width, pc, result
vars == <<op, scalars, vectors, objects, origin, width, pc, result>>

(* The arguments of the call. *)
args == <<op, scalars, vectors, objects, origin, width>>

(* Bounds of the explored inputs. *)
MaxLen == 2
MaxVectors == 3
MaxFigures == 2

(* Values of the vector components and of the scalars of the explored calls. *)
Component == {1, 2}
Scalar == {-1, 2}
Coordinate == {-1, 0, 2}

(* The sequences over S of length 0..n. *)
SeqsUpTo(S, n) == UNION {[1..k -> S] : k \in 0..n}

Vectors == SeqsUpTo(Component, MaxLen)
VectorLists == SeqsUpTo(Vectors, MaxVectors)
ScalarLists == SeqsUpTo(Scalar, MaxVectors)
Ones(n) == [i \in 1..n |-> 1]
Vectors3D == [1..3 -> Coordinate]

(* Components of the explored calls of unit: int | float values m * 10^e,     *)
(* here 0, 3, -4, 1e-200 and 1e200.                                            *)
Number(m, e) == [m |-> m, e |-> e]
UnitComponent ==
  {Number(0, 0), Number(3, 0), Number(-4, 0), Number(1, -200), Number(1, 200)}
UnitVectors == SeqsUpTo(UnitComponent, MaxLen)

(* Figures of the explored calls of draw3d, each as the sequence of vectors   *)
(* its extract_vectors yields: Points3D() without points, Box3D(x, y, z), and *)
(* Arrow3D(tip) with its default tail.                                        *)
FigureCoordinate == {-3, 0, 4}
FigurePoints == [1..3 -> FigureCoordinate]
Figures ==
  {<<>>} \cup {<<p>> : p \in FigurePoints}
         \cup {<<p, <<0, 0, 0>> >> : p \in FigurePoints}
FigureLists == SeqsUpTo(Figures, MaxFigures)
Widths == {1, 6}

(* Default arguments of draw3d. *)
DefaultOrigin == TRUE
DefaultWidth == 6

(* Outcomes of a call. *)
NoResult == [kind |-> "none", value |-> <<>>]
Return(v) == [kind |-> "ok", value |-> v]
Raise(e) == [kind |-> e, value |-> <<>>]

(***************************************************************************)
(* Python built-ins used by the library.                                   *)
(***************************************************************************)
Min(S) == CHOOSE m \in S : \A x \in S : m <= x

\* zip of the given sequences: stops at the shortest one; zip of nothing is empty.
zip(seqs) ==
  IF seqs = <<>> THEN <<>>
  ELSE [i \in 1..Min({Len(seqs[j]) : j \in 1..Len(seqs)}) |->
          [j \in 1..Len(seqs) |-> seqs[j][i]]]

(* sum(iterable): left to right starting from 0. *)
RECURSIVE sumFrom(_, _)
sumFrom(acc, s) == IF s = <<>> THEN acc ELSE sumFrom(acc + Head(s), Tail(s))

sum(s) == sumFrom(0, s)

(***************************************************************************)
(* vector3d_math.py                                                        *)
(***************************************************************************)
\* add with the guard off by one: a single vector is accepted.
add_MinOne(vs) ==
  IF Len(vs) < 1 THEN Raise("ValueError")
  ELSE LET zipped_by_coords == zip(vs)
       IN Return([i \in 1..Len(zipped_by_coords) |-> sum(zipped_by_coords[i])])

\* add that sums the first two vectors only.
add_FirstTwo(vs) ==
  IF Len(vs) < 2 THEN Raise("ValueError")
  ELSE LET zipped_by_coords == zip(<<vs[1], vs[2]>>)
       IN Return([i \in 1..Len(zipped_by_coords) |-> sum(zipped_by_coords[i])])

add(vs) ==
  IF Len(vs) < 2 THEN Raise("ValueError")
  ELSE LET zipped_by_coords == zip(vs)
           sum_by_coords == [i \in 1..Len(zipped_by_coords) |->
                               sum(zipped_by_coords[i])]
       IN Return(sum_by_coords)

\* scale that adds the scalar to every component.
scale_AddsScalar(s, v) == [i \in 1..Len(v) |-> s + v[i]]

\* scale that drops the scalar.
scale_IgnoresScalar(s, v) == [i \in 1..Len(v) |-> v[i]]

scale(s, v) == [i \in 1..Len(v) |-> s * v[i]]

\* subtract with the operands swapped.
subtract_Swapped(v, w) ==
  LET pairs == zip(<<v, w>>)
  IN Return([i \in 1..Len(pairs) |-> pairs[i][2] - pairs[i][1]])

subtract(v, w) ==
  LET pairs == zip(<<v, w>>)
  IN Return([i \in 1..Len(pairs) |-> pairs[i][1] - pairs[i][2]])

\* dot that adds the components of each pair.
dot_SumOfSums(u, v) ==
  LET pairs == zip(<<u, v>>)
  IN Return(sum([i \in 1..Len(pairs) |-> pairs[i][1] + pairs[i][2]]))

dot(u, v) ==
  LET pairs == zip(<<u, v>>)
  IN Return(sum([i \in 1..Len(pairs) |-> pairs[i][1] * pairs[i][2]]))

\* cross with a sign slip in the last component.
cross_SignSlip(u, v) ==
  IF Len(u) # 3 \/ Len(v) # 3 THEN Raise("ValueError")
  ELSE LET ux == u[1]  uy == u[2]  uz == u[3]
           vx == v[1]  vy == v[2]  vz == v[3]
       IN Return(<<uy * vz - uz * vy, uz * vx - ux * vz, ux * vy + uy * vx>>)

\* cross: unpacking u or v into three names fails unless it has three components.
cross(u, v) ==
  IF Len(u) # 3 \/ Len(v) # 3 THEN Raise("ValueError")
  ELSE LET ux == u[1]  uy == u[2]  uz == u[3]
           vx == v[1]  vy == v[2]  vz == v[3]
       IN Return(<<uy * vz - uz * vy, uz * vx - ux * vz, ux * vy - uy * vx>>)

(* Decimal exponent range of a float: above FloatMaxExp a result overflows,   *)
(* below FloatMinExp it underflows to 0.0.                                    *)
FloatMaxExp == 308
FloatMinExp == -323

\* coord**2 for coord = m * 10^e with a small m: OverflowError when the square
\* is out of the range of a float, 0.0 when it underflows.
square(coord) ==
  IF coord.m = 0 THEN Return(0)
  ELSE IF 2 * coord.e > FloatMaxExp THEN Raise("OverflowError")
  ELSE IF 2 * coord.e < FloatMinExp THEN Return(0)
  ELSE Return(coord.m * coord.m)

\* length(v) = sqrt(sum of the squares); the returned value is kept as the sum
\* under the root.
length(v) ==
  LET squares == [i \in 1..Len(v) |-> square(v[i])]
  IN IF \E i \in 1..Len(v) : squares[i].kind # "ok" THEN Raise("OverflowError")
     ELSE Return(sum([i \in 1..Len(v) |-> squares[i].value]))

\* unit(v) = scale(1.0 / length(v), v): the division raises ZeroDivisionError
\* when length(v) is 0.0; each returned component v[i] / length(v) is kept as
\* the pair of v[i] and the sum under the root.
unit(v) ==
  LET len == length(v)
  IN IF len.kind # "ok" THEN len
     ELSE IF len.value = 0 THEN Raise("ZeroDivisionError")
     ELSE Return([i \in 1..Len(v) |-> [coord |-> v[i], over_sqrt |-> len.value]])

(***************************************************************************)
(* vector3d_graphics.py: draw3d, up to the calls of the plotting backend.  *)
(* Lengths along the axes are kept in twentieths of a unit, so that the    *)
(* padding 0.05 * size is the integer size.                                *)
(***************************************************************************)
Twentieths == 20
Scaled(n) == Twentieths * n

MinOf(S) == CHOOSE m \in S : \A x \in S : m <= x
MaxOf(S) == CHOOSE m \in S : \A x \in S : m >= x

\* [v for obj in objects for v in obj.extract_vectors()]
RECURSIVE extract_all(_)
extract_all(objs) ==
  IF objs = <<>> THEN <<>> ELSE Head(objs) \o extract_all(Tail(objs))

\* padding without any margin.
padding_None(size) == 0

\* 0.05 * size if size else 1, in twentieths.
padding(size) == IF size # 0 THEN size ELSE Scaled(1)

\* (min(min_c - padding, -2), max(max_c + padding, 2)) for the coordinates cs
\* of one axis, with max_c = max(0, *cs) and min_c = min(0, *cs).
plot_range(cs) ==
  LET max_c == MaxOf({0} \cup cs)
      min_c == MinOf({0} \cup cs)
      size == max_c - min_c
  IN <<MinOf({Scaled(min_c) - padding(size), Scaled(-2)}),
       MaxOf({Scaled(max_c) + padding(size), Scaled(2)})>>

axis_size(cs) == MaxOf({0} \cup cs) - MinOf({0} \cup cs)

\* The i-th coordinates of the vectors vs.
Coordinates(vs, i) == {vs[k][i] : k \in 1..Len(vs)}

\* draw3d: unpacking zip of no vectors into xs, ys, zs fails.  The outcome
\* holds the three plot ranges and the arguments of fig.set_size_inches, the
\* height as the fraction num / den; no size when the call is skipped.
draw3d(objs, orig, w) ==
  LET all_vectors ==
        extract_all(objs) \o (IF orig THEN << <<0, 0, 0>> >> ELSE <<>>)
      xs == Coordinates(all_vectors, 1)
      ys == Coordinates(all_vectors, 2)
      zs == Coordinates(all_vectors, 3)
      x_size == axis_size(xs)
      y_size == axis_size(ys)
  IN IF all_vectors = <<>> THEN Raise("ValueError")
     ELSE Return([plot_x_range |-> plot_range(xs),
                  plot_y_range |-> plot_range(ys),
                  plot_z_range |-> plot_range(zs),
                  size |-> IF y_size # 0
                           THEN <<[w |-> w, num |-> w * x_size, den |-> y_size]>>
                           ELSE <<>>])

\* linear_combination that leaves the first pair out.
linear_combination_SkipsFirst(ss, vs) ==
  IF Len(ss) # Len(vs) THEN Raise("ValueError")
  ELSE LET pairs == zip(<<ss, vs>>)
       IN add([i \in 1..(Len(pairs) - 1) |->
                 scale(pairs[i + 1][1], pairs[i + 1][2])])

\* linear_combination without the count check.
linear_combination_NoCountCheck(ss, vs) ==
  LET pairs == zip(<<ss, vs>>)
  IN add([i \in 1..Len(pairs) |-> scale(pairs[i][1], pairs[i][2])])

\* linear_combination whose count check only rejects too many scalars.
linear_combination_OneSidedCheck(ss, vs) ==
  IF Len(ss) > Len(vs) THEN Raise("ValueError")
  ELSE LET pairs == zip(<<ss, vs>>)
       IN add([i \in 1..Len(pairs) |-> scale(pairs[i][1], pairs[i][2])])

\* linear_combination that returns the scaled vector of a singleton combination.
linear_combination_SingletonScaled(ss, vs) ==
  IF Len(ss) # Len(vs) THEN Raise("ValueError")
  ELSE IF Len(vs) = 1 THEN Return(scale(ss[1], vs[1]))
  ELSE LET pairs == zip(<<ss, vs>>)
       IN add([i \in 1..Len(pairs) |-> scale(pairs[i][1], pairs[i][2])])

linear_combination(ss, vs) ==
  IF Len(ss) # Len(vs) THEN Raise("ValueError")
  ELSE LET pairs == zip(<<ss, vs>>)
       IN add([i \in 1..Len(pairs) |-> scale(pairs[i][1], pairs[i][2])])

(***************************************************************************)
(* The calls.                                                              *)
(***************************************************************************)
(* The calls of vec3d.math: draw3d's arguments are left at their defaults. *)
MathCall ==
  /\ objects = <<>> /\ origin = DefaultOrigin /\ width = DefaultWidth
  /\ \/ op = "add" /\ scalars = <<>> /\ vectors \in VectorLists
     \/ /\ op \in {"subtract", "dot"}
        /\ scalars = <<>>
        /\ vectors \in [1..2 -> Vectors]
     \/ /\ op = "linear_combination"
        /\ scalars \in ScalarLists
        /\ vectors \in VectorLists
     \/ /\ op = "linear_combination"
        /\ vectors \in VectorLists
        /\ scalars = Ones(Len(vectors))
     \/ /\ op = "subtract_add"
        /\ scalars = <<>>
        /\ vectors \in [1..2 -> Vectors]
     \/ /\ op = "scale_scale"
        /\ scalars \in [1..2 -> Scalar \cup Coordinate]
        /\ vectors \in [1..1 -> Vectors]
     \/ /\ op = "unit"
        /\ scalars = <<>>
        /\ vectors \in [1..1 -> UnitVectors]
     \/ /\ op = "cross"
        /\ scalars = <<>>
        /\ vectors \in [1..2 -> Vectors3D \cup Vectors]

DrawCall ==
  /\ op = "draw3d"
  /\ scalars = <<>> /\ vectors = <<>>
  /\ objects \in FigureLists
  /\ origin \in BOOLEAN
  /\ width \in Widths

Init ==
  /\ pc = "call"
  /\ result = NoResult
  /\ (MathCall \/ DrawCall)

CallAdd ==
  /\ pc = "call" /\ op = "add"
  /\ result' = add(vectors)
  /\ pc' = "done"
  /\ UNCHANGED args

CallSubtract ==
  /\ pc = "call" /\ op = "subtract"
  /\ result' = subtract(vectors[1], vectors[2])
  /\ pc' = "done"
  /\ UNCHANGED args

CallDot ==
  /\ pc = "call" /\ op = "dot"
  /\ result' = dot(vectors[1], vectors[2])
  /\ pc' = "done"
  /\ UNCHANGED args

CallLinearCombination ==
  /\ pc = "call" /\ op = "linear_combination"
  /\ result' = linear_combination(scalars, vectors)
  /\ pc' = "done"
  /\ UNCHANGED args

\* subtract(add(u, v), v)
CallSubtractAdd ==
  /\ pc = "call" /\ op = "subtract_add"
  /\ result' = LET s == add(<<vectors[1], vectors[2]>>)
               IN IF s.kind # "ok" THEN s ELSE subtract(s.value, vectors[2])
  /\ pc' = "done"
  /\ UNCHANGED args

\* scale(a, scale(b, v))
CallScaleScale ==
  /\ pc = "call" /\ op = "scale_scale"
  /\ result' = Return(scale(scalars[1], scale(scalars[2], vectors[1])))
  /\ pc' = "done"
  /\ UNCHANGED args

CallCross ==
  /\ pc = "call" /\ op = "cross"
  /\ result' = cross(vectors[1], vectors[2])
  /\ pc' = "done"
  /\ UNCHANGED args

CallUnit ==
  /\ pc = "call" /\ op = "unit"
  /\ result' = unit(vectors[1])
  /\ pc' = "done"
  /\ UNCHANGED args

CallDraw3d ==
  /\ pc = "call" /\ op = "draw3d"
  /\ result' = draw3d(objects, origin, width)
  /\ pc' = "done"
  /\ UNCHANGED args

Next ==
  \/ CallAdd
  \/ CallSubtract
  \/ CallDot
  \/ CallLinearCombination
  \/ CallSubtractAdd
  \/ CallScaleScale
  \/ CallCross
  \/ CallUnit
  \/ CallDraw3d

Spec == Init /\ [][Next]_vars

(***************************************************************************)
(* Properties.                                                             *)
(***************************************************************************)
Done(o) == pc = "done" /\ op = o

SameLength(vs) == \A i, j \in 1..Len(vs) : Len(vs[i]) = Len(vs[j])

\* v1[i] + ... + vk[i]
RECURSIVE ColumnSum(_, _, _)
ColumnSum(vs, i, k) == IF k = 0 THEN 0 ELSE ColumnSum(vs, i, k - 1) + vs[k][i]

\* ss[1] * v1[i] + ... + ss[k] * vk[i]
RECURSIVE WeightedColumnSum(_, _, _, _)
WeightedColumnSum(ss, vs, i, k) ==
  IF k = 0 THEN 0 ELSE WeightedColumnSum(ss, vs, i, k - 1) + ss[k] * vs[k][i]

\* C1: add of two or more vectors, not all of the same length, fails with the
\* length-mismatch error (TypeError) and returns no vector.
C1_AddLengthMismatchFails ==
  (Done("add") /\ Len(vectors) >= 2 /\ ~SameLength(vectors))
    => result = Raise("TypeError")

\* C2: add of k >= 2 vectors of the same length N returns a vector of length N
\* whose i-th component is v1[i] + ... + vk[i].
C2_AddIsComponentwiseSum ==
  (Done("add") /\ Len(vectors) >= 2 /\ SameLength(vectors))
    => /\ result.kind = "ok"
       /\ Len(result.value) = Len(vectors[1])
       /\ \A i \in 1..Len(vectors[1]) :
            result.value[i] = ColumnSum(vectors, i, Len(vectors))

C2_Witness ==
  /\ Done("add")
  /\ vectors = << <<1, 2>>, <<2, 2>>, <<1, 1>> >>
  /\ result = Return(<<4, 5>>)

\* C3: add of fewer than two vectors (none, or one of any length) fails with
\* ValueError and returns no vector.
C3_AddFewerThanTwoFails ==
  (Done("add") /\ Len(vectors) < 2) => result = Raise("ValueError")

C3_Witness ==
  /\ Done("add")
  /\ vectors = << <<1, 2>> >>
  /\ result = Raise("ValueError")

\* C4: subtract of two vectors of different lengths fails with the
\* length-mismatch error (TypeError) and returns no vector.
C4_SubtractLengthMismatchFails ==
  (Done("subtract") /\ Len(vectors[1]) # Len(vectors[2]))
    => result = Raise("TypeError")

\* C5: dot of two vectors of different lengths fails with the length-mismatch
\* error (TypeError) and returns no scalar.
C5_DotLengthMismatchFails ==
  (Done("dot") /\ Len(vectors[1]) # Len(vectors[2]))
    => result = Raise("TypeError")

\* C6: linear_combination of as many scalars as vectors (k >= 2), the vectors
\* not all of the same length, fails with the length-mismatch error (TypeError)
\* and returns no vector.
C6_LinearCombinationLengthMismatchFails ==
  (/\ Done("linear_combination")
   /\ Len(scalars) = Len(vectors)
   /\ Len(vectors) >= 2
   /\ ~SameLength(vectors))
    => result = Raise("TypeError")

\* C7: linear_combination with a number of scalars different from the number
\* of vectors fails with ValueError and returns no vector.
C7_LinearCombinationCountMismatchFails ==
  (Done("linear_combination") /\ Len(scalars) # Len(vectors))
    => result = Raise("ValueError")

C7_Witness ==
  /\ Done("linear_combination")
  /\ scalars = <<2, -1>>
  /\ vectors = << <<1, 2>>, <<2, 1>>, <<1, 1>> >>
  /\ result = Raise("ValueError")

\* C8 (as stated): for every N >= 1, linear_combination of N scalars and N
\* vectors of the same length L returns the vector of length L whose i-th
\* component is the sum over j of scalars[j] * vj[i].
C8_LinearCombinationFromOne ==
  (/\ Done("linear_combination")
   /\ Len(scalars) = Len(vectors)
   /\ Len(vectors) >= 1
   /\ SameLength(vectors))
    => /\ result.kind = "ok"
       /\ Len(result.value) = Len(vectors[1])
       /\ \A i \in 1..Len(vectors[1]) :
            result.value[i] = WeightedColumnSum(scalars, vectors, i, Len(vectors))

\* C8 (amended): for every N >= 2, linear_combination of N scalars and N
\* vectors of the same length L returns the vector of length L whose i-th
\* component is the sum over j of scalars[j] * vj[i].
C8_LinearCombinationFromTwo ==
  (/\ Done("linear_combination")
   /\ Len(scalars) = Len(vectors)
   /\ Len(vectors) >= 2
   /\ SameLength(vectors))
    => /\ result.kind = "ok"
       /\ Len(result.value) = Len(vectors[1])
       /\ \A i \in 1..Len(vectors[1]) :
            result.value[i] = WeightedColumnSum(scalars, vectors, i, Len(vectors))

C8_Witness ==
  /\ Done("linear_combination")
  /\ scalars = <<2, -1, 2>>
  /\ vectors = << <<1, 2>>, <<2, 1>>, <<2, 2>> >>
  /\ result = Return(<<4, 7>>)

\* C9: linear_combination of one scalar and one vector, and of no scalar and
\* no vector, fails with ValueError instead of returning a vector.
C9_LinearCombinationSingletonOrEmptyFails ==
  (/\ Done("linear_combination")
   /\ Len(scalars) = Len(vectors)
   /\ Len(vectors) <= 1)
    => result = Raise("ValueError")

C9_Witness ==
  /\ Done("linear_combination")
  /\ scalars = <<2>>
  /\ vectors = << <<1, 2>> >>
  /\ result = Raise("ValueError")

\* C10: a linear_combination call with both defects, a scalar count different
\* from the vector count and vectors of different lengths, reports the count
\* error (ValueError), never the length-mismatch error.
C10_CountErrorBeforeLengthError ==
  (/\ Done("linear_combination")
   /\ Len(scalars) # Len(vectors)
   /\ ~SameLength(vectors))
    => (result.kind = "ValueError" /\ result.kind # "TypeError")

C10_Witness ==
  /\ Done("linear_combination")
  /\ scalars = <<2, -1>>
  /\ vectors = << <<1, 2>>, <<2>>, <<1, 1>> >>
  /\ result.kind = "ValueError"

\* u[1] * v[1] + ... + u[k] * v[k]
RECURSIVE ProductSum(_, _, _)
ProductSum(u, v, k) == IF k = 0 THEN 0 ELSE ProductSum(u, v, k - 1) + u[k] * v[k]

\* C11: for vectors u and v of equal length with integer components,
\* subtract(add(u, v), v) is u, with the same length and the same components.
C11_SubtractUndoesAdd ==
  (Done("subtract_add") /\ Len(vectors[1]) = Len(vectors[2]))
    => result = Return(vectors[1])

C11_Witness ==
  /\ Done("subtract_add")
  /\ vectors = << <<1, 2>>, <<2, 2>> >>
  /\ result = Return(<<1, 2>>)

\* C12: for n vectors of equal length, linear_combination with n scalars all
\* equal to 1 has the outcome of add on the same vectors: the same vector when
\* add succeeds, the same error when add fails.
C12_OnesCombinationIsAdd ==
  (/\ Done("linear_combination")
   /\ scalars = Ones(Len(vectors))
   /\ SameLength(vectors))
    => result = add(vectors)

C12_Witness ==
  /\ Done("linear_combination")
  /\ scalars = <<1, 1, 1>>
  /\ vectors = << <<1, 2>>, <<2, 2>>, <<1, 1>> >>
  /\ result = Return(<<4, 5>>)

\* C13: for 3-component vectors u and v, cross(u, v) is
\* (uy*vz - uz*vy, uz*vx - ux*vz, ux*vy - uy*vx), and it equals
\* scale(-1, cross(v, u)).
C13_CrossProduct ==
  (Done("cross") /\ Len(vectors[1]) = 3 /\ Len(vectors[2]) = 3)
    => LET u == vectors[1]
           v == vectors[2]
       IN /\ result = Return(<<u[2] * v[3] - u[3] * v[2],
                               u[3] * v[1] - u[1] * v[3],
                               u[1] * v[2] - u[2] * v[1]>>)
          /\ cross(v, u).kind = "ok"
          /\ result.value = scale(-1, cross(v, u).value)

C13_Witness ==
  /\ Done("cross")
  /\ vectors = << <<2, 0, -1>>, <<0, 2, 2>> >>
  /\ result = Return(<<2, -4, 4>>)

\* C14: for every vector v, the empty one included, and integers a and b,
\* scale(a, scale(b, v)) is scale(a*b, v); scale does not fail and returns as
\* many components as v has.
C14_ScaleComposes ==
  Done("scale_scale")
    => /\ result = Return(scale(scalars[1] * scalars[2], vectors[1]))
       /\ Len(result.value) = Len(vectors[1])

C14_Witness ==
  /\ Done("scale_scale")
  /\ scalars = <<-1, 2>>
  /\ vectors = << <<1, 2>> >>
  /\ result = Return(<<-2, -4>>)

\* C15: for vectors u and v of equal length N, dot(u, v) is the sum over i of
\* u[i] * v[i], and dot(u, v) is dot(v, u).
C15_DotIsSumOfProducts ==
  (Done("dot") /\ Len(vectors[1]) = Len(vectors[2]))
    => /\ result = Return(ProductSum(vectors[1], vectors[2], Len(vectors[1])))
       /\ result = dot(vectors[2], vectors[1])

C15_Witness ==
  /\ Done("dot")
  /\ vectors = << <<1, 2>>, <<2, 2>> >>
  /\ result = Return(6)

\* C16: unit(v) fails with the division-by-zero error exactly when every
\* component of v is 0 (the empty vector included); for every vector with a
\* non-zero component it raises nothing and returns as many components as v has.
C16_UnitFailsExactlyOnZeroVector ==
  Done("unit")
    => LET v == vectors[1]
       IN IF \A i \in 1..Len(v) : v[i].m = 0
          THEN result = Raise("ZeroDivisionError")
          ELSE result.kind = "ok" /\ Len(result.value) = Len(v)

\* The vectors draw3d collects: those of the figures, and the origin when shown.
AllVectors ==
  extract_all(objects) \o (IF origin THEN << <<0, 0, 0>> >> ELSE <<>>)

\* The plot range draw3d computed for axis i (1 = x, 2 = y, 3 = z).
RangeOfAxis(i) ==
  IF i = 1 THEN result.value.plot_x_range
  ELSE IF i = 2 THEN result.value.plot_y_range
  ELSE result.value.plot_z_range

\* The range of the bounding box of the coordinates cs, in twentieths: padding
\* of 5% of the span, or of 1 unit when the span is zero, and at least [-2, 2].
BoxRange(cs) ==
  LET lo == MinOf(cs)
      hi == MaxOf(cs)
      pad == IF hi - lo # 0 THEN hi - lo ELSE Scaled(1)
  IN <<MinOf({Scaled(lo) - pad, Scaled(-2)}), MaxOf({Scaled(hi) + pad, Scaled(2)})>>

\* The range covers [-2, 2] and strictly contains every coordinate of cs.
CoversAndContains(range, cs) ==
  /\ range[1] <= Scaled(-2)
  /\ range[2] >= Scaled(2)
  /\ \A c \in cs : range[1] < Scaled(c) /\ Scaled(c) < range[2]

\* C17 (as stated): in draw3d the default plot range of each axis is the one
\* of the bounding box of the figure coordinates on that axis (padding 5% of
\* the span, or 1 unit for a zero span, lo = min(min - padding, -2),
\* hi = max(max + padding, 2)); it covers [-2, 2] and strictly contains every
\* figure coordinate.
C17_RangeOfFigureBox ==
  (Done("draw3d") /\ result.kind = "ok")
    => \A i \in 1..3 :
         /\ RangeOfAxis(i) = BoxRange(Coordinates(AllVectors, i))
         /\ CoversAndContains(RangeOfAxis(i), Coordinates(AllVectors, i))

\* C17 (amended): the bounding box is the one of the figure coordinates
\* together with 0, whether or not the origin is shown; the range covers
\* [-2, 2] and strictly contains every figure coordinate.
C17_RangeOfFigureBoxWithZero ==
  (Done("draw3d") /\ result.kind = "ok")
    => \A i \in 1..3 :
         /\ RangeOfAxis(i) = BoxRange({0} \cup Coordinates(AllVectors, i))
         /\ CoversAndContains(RangeOfAxis(i), Coordinates(AllVectors, i))

C17_Witness ==
  /\ Done("draw3d")
  /\ ~origin
  /\ objects = << << <<4, 0, -3>> >> >>
  /\ result.kind = "ok"
  /\ result.value.plot_x_range = <<-40, 84>>
  /\ result.value.plot_y_range = <<-40, 40>>
  /\ result.value.plot_z_range = <<-63, 40>>

\* C18: whenever draw3d sets the canvas size, both dimensions are strictly
\* positive; the height width * x_size / y_size is not 0 when all figure
\* x-coordinates are 0 and the y-span is not.
C18_CanvasSizePositive ==
  (Done("draw3d") /\ result.kind = "ok" /\ result.value.size # <<>>)
    => LET size == result.value.size[1]
       IN size.w > 0 /\ size.num * size.den > 0
====
